---- MODULE Spec2Model ----
(***************************************************************************)
(* Model of the batch pipelines of the repository:                         *)
(*   image_link_downloader/main.py   (ExcelImageDownloader, thread pool)   *)
(*   bulk_image_extension_converter/ex.py  (BulkImageConverter, loop)      *)
(*   pdf_2_docx/main.py              (PDFtoDOCXConverter, preview paging)  *)
(* A behaviour is a run of one of the programs (variable prog),            *)
(* optionally followed by a second run over the same input and the same    *)
(* output directory.                                                       *)
(*                                                                         *)
(* Strings are sequences of tokens (a token is a run of characters that    *)
(* the code never splits: "a", "jpg", ".", "image_", "~").                  *)
(***************************************************************************)
EXTENDS Integers, Sequences, FiniteSets, TLC

VARIABLES
  prog,              \* "download" | "convert": which script runs
  run,               \* 1 or 2: the run of the pipeline over the same input
  prev,              \* statuses of run 1, by item index (<<>> during run 1)
  fs,                \* output directory: filename -> content
  called,            \* items for which the external operation was invoked
  wrote,             \* items whose invocation opened the target for writing
  results,           \* download_all_images.results / lines printed by bulk_convert
  \* ---- downloader
  rows,              \* the Excel sheet: sequence of [url, id]
  max_workers,       \* self.max_workers
  urls,              \* load_excel_data()[1]
  tasks,             \* download_all_images.tasks
  pc,                \* position of each submitted download_image call
  fut,               \* value of each finished future
  failed_downloads,  \* download_all_images.failed_downloads
  report,            \* what generate_report logged
  csv,               \* failed_downloads.csv
  mpc,               \* position of the main thread / of bulk_convert
  \* ---- converter
  folder,            \* files of input_folder
  output_format,
  overwrite,
  image_files,       \* bulk_convert.image_files
  idx,               \* position of the for loop in image_files
  converted_count,
  skipped_count,
  failed_count,
  \* ---- main() of the downloader
  source,            \* the Excel file: "ok" | "unsupported" | "no_column"
  exit_code,         \* what main returned, -1 while it runs
  error_log,         \* the logger.error lines of load_excel_data and main
  retry_queue,       \* the failed records main still has to retry
  retry_results,     \* the results of the retry loop of main
  \* ---- PDF preview
  preview_images,    \* self.preview_images (the page numbers rendered)
  current_page,      \* self.current_page
  total_pages,       \* self.total_pages
  event              \* the last event the preview window handled

dvars == <<rows, max_workers, urls, tasks, pc, fut, failed_downloads, report, csv>>
cvars == <<folder, output_format, overwrite, image_files, idx,
           converted_count, skipped_count, failed_count>>
mvars == <<source, exit_code, error_log, retry_queue, retry_results>>
pvars == <<preview_images, current_page, total_pages, event>>
xvars == <<mvars, pvars>>
vars  == <<prog, run, prev, fs, called, wrote, results, mpc, dvars, cvars, xvars>>

----------------------------------------------------------------------------
\* Bounds

MaxUrls == 2        \* rows of the sheet
MaxWorkers == 2     \* largest max_workers tried
MaxFiles == 3       \* files in input_folder
MaxRerunUrls == 1   \* rows of the sheet in the two-run scenario
MaxRerunFiles == 2
MaxPages == 11         \* pages of a PDF file  \* files in input_folder in the two-run scenario

None == "None"      \* Python None (error field of a record)
NaN == [host |-> "NaN", base |-> <<>>]     \* empty url cell
NaNId == <<"NaN">>                         \* empty id cell
NoRow == [url |-> NaN, id |-> NaNId]       \* df_row = None
NoResult == [status |-> "pending"]         \* a future that is not done
NoFile == [header |-> <<>>, lines |-> <<>>]   \* failed_downloads.csv is absent

----------------------------------------------------------------------------
\* Generic helpers

Range(s) == {s[k] : k \in DOMAIN s}

Contains(s, t) == \E k \in DOMAIN s : s[k] = t

\* last position of token t in s, 0 when absent
LastPos(s, t) ==
  IF Contains(s, t) THEN CHOOSE k \in DOMAIN s : s[k] = t /\ \A j \in DOMAIN s : j > k => s[j] # t
  ELSE 0

\* first position of token t in s, 0 when absent
FirstPos(s, t) ==
  IF Contains(s, t) THEN CHOOSE k \in DOMAIN s : s[k] = t /\ \A j \in DOMAIN s : j < k => s[j] # t
  ELSE 0

\* str(index)
DigitTok(n) == <<"0", "1", "2", "3", "4", "5", "6", "7", "8", "9">>[n + 1]

----------------------------------------------------------------------------
\* ExcelImageDownloader.get_filename

safe_chars == {"a", "b", "p", "jpg", "png", "image_", "_", ".", "-",
               "0", "1", "2", "3", "4", "5", "6", "7", "8", "9"}

\* os.path.splitext(filename)[1]: from the last dot on, unless the dot leads
splitext_ext(filename) ==
  LET k == LastPos(filename, ".")
  IN IF k > 1 THEN SubSeq(filename, k, Len(filename)) ELSE <<>>

\* filename.split('?')[0]
split_query(filename) ==
  LET k == FirstPos(filename, "?")
  IN IF k = 0 THEN filename ELSE SubSeq(filename, 1, k - 1)

\* str(v).replace('/', '_').replace('\\', '_')
safe_name_of(v) == [k \in DOMAIN v |-> IF v[k] \in {"/", "\\"} THEN "_" ELSE v[k]]

get_filename(url, index, df_row) ==
  LET base == url.base                               \* os.path.basename(parsed_url.path)
      f1 == IF base = <<>> \/ ~Contains(base, ".")
            THEN <<"image_", DigitTok(index)>> ELSE base
      f2 == IF ~Contains(f1, ".") THEN f1 \o <<".", "jpg">> ELSE f1
      f3 == split_query(f2)
      f4 == IF df_row # NoRow /\ df_row.id # NaNId
            THEN LET ext == IF splitext_ext(f3) # <<>> THEN splitext_ext(f3) ELSE <<".", "jpg">>
                 IN safe_name_of(df_row.id) \o ext
            ELSE f3
  IN SelectSeq(f4, LAMBDA c : c \in safe_chars)

----------------------------------------------------------------------------
\* Inputs

U_a    == [host |-> "h1", base |-> <<"a", ".", "jpg">>]   \* http://h1/a.jpg
U_b    == [host |-> "h2", base |-> <<"b", ".", "jpg">>]   \* http://h2/b.jpg
U_none == [host |-> "h1", base |-> <<>>]                  \* http://h1/

\* rows of the sheet; the sheet has the columns url and id
RowChoices ==
  { [url |-> U_a,    id |-> NaNId],           \* a.jpg
    [url |-> U_b,    id |-> <<"a", "~">>],    \* id "a~": a.jpg
    [url |-> U_none, id |-> NaNId],           \* image_<index>.jpg
    [url |-> NaN,    id |-> NaNId] }

Sheets == UNION {[1..n -> RowChoices] : n \in 0..MaxUrls}

\* the sheets of the two-run scenario: no empty url cell
RerunSheets == UNION {[1..n -> {r \in RowChoices : r.url # NaN}] : n \in 0..MaxRerunUrls}

A_JPG == <<"a", ".", "jpg">>

EmptyDir == [f \in {} |-> "old"]

\* the output directory before the first run: empty, or holding a.jpg
InitialDirs == {EmptyDir, [f \in {A_JPG} |-> "old"]}

\* variant: the bytes go somewhere else, the output directory keeps its state
WriteFile_lost(dir, path, c) == dir

\* open(path, 'wb') / a finished write: the file at path now holds c
WriteFile(dir, path, c) ==
  [f \in DOMAIN dir \cup {path} |-> IF f = path THEN c ELSE dir[f]]

\* variant: the existence test always answers no
exists_never(dir, path) == FALSE

\* os.path.exists
exists(dir, path) == path \in DOMAIN dir

----------------------------------------------------------------------------
\* ExcelImageDownloader

\* load_excel_data: df[url_column].dropna().astype(str).tolist()
dropna(df) ==
  LET keep == SelectSeq(df, LAMBDA r : r.url # NaN)
  IN [k \in DOMAIN keep |-> keep[k].url]

\* df[df[url_column] == url].iloc[0].to_dict(), NoRow when no row matches
matching_row(df, url) ==
  IF \E k \in DOMAIN df : df[k].url = url
  THEN df[CHOOSE k \in DOMAIN df : df[k].url = url /\ \A j \in DOMAIN df : j < k => df[j].url # url]
  ELSE NoRow

\* the task list of download_all_images; task k carries index k - 1
prepare_tasks(df, us) ==
  [k \in DOMAIN us |->
     [url |-> us[k], filename |-> get_filename(us[k], k - 1, matching_row(df, us[k])),
      index |-> k - 1]]

Items == DOMAIN tasks

Outcome(t, status, error) ==
  [index |-> t.index, url |-> t.url, filename |-> t.filename, status |-> status, error |-> error]

\* variant: no except clause, the error leaves download_image
on_exception_reraise(t, e) == Outcome(t, "raised", e)

\* the except clauses of download_image: the error becomes a failed record
on_exception(t, e) == Outcome(t, "failed", e)

InFlight == {i \in Items : pc[i] \in {"get", "stream"}}

\* variant: one thread per submitted call
worker_free_unbounded == TRUE

\* ThreadPoolExecutor(max_workers): a queued call starts when a worker is free
worker_free == Cardinality(InFlight) < max_workers

\* the work queue is FIFO
next_queued(i) == pc[i] = "queued" /\ \A j \in Items : j < i => pc[j] # "queued"

\* main: load_excel_data, then download_all_images up to the submission of all tasks
LoadAndSubmit ==
  /\ prog = "download" /\ mpc = "start" /\ source = "ok"
  /\ urls' = dropna(rows)
  /\ IF urls' = <<>>
     THEN /\ mpc' = "done"
          /\ UNCHANGED <<tasks, pc, fut>>
     ELSE /\ tasks' = prepare_tasks(rows, urls')
          /\ pc' = [k \in DOMAIN urls' |-> "queued"]
          /\ fut' = [k \in DOMAIN urls' |-> NoResult]
          /\ mpc' = "pool"
  /\ UNCHANGED xvars
  /\ UNCHANGED <<prog, run, prev, fs, called, wrote, results, rows, max_workers,
                 failed_downloads, report, csv, cvars>>

\* a worker takes the next call; download_image up to the exists check
StartDownload(i) ==
  /\ prog = "download" /\ mpc = "pool"
  /\ next_queued(i) /\ worker_free
  /\ IF exists(fs, tasks[i].filename)
     THEN /\ pc' = [pc EXCEPT ![i] = "finished"]
          /\ fut' = [fut EXCEPT ![i] = Outcome(tasks[i], "skipped", None)]
     ELSE /\ pc' = [pc EXCEPT ![i] = "get"]
          /\ fut' = fut
  /\ UNCHANGED xvars
  /\ UNCHANGED <<prog, run, prev, fs, called, wrote, results, mpc, rows, max_workers,
                 urls, tasks, failed_downloads, report, csv, cvars>>

\* requests.get, raise_for_status, the content-type test and open(filepath, 'wb')
Fetch(i) ==
  /\ prog = "download" /\ pc[i] = "get"
  /\ called' = called \cup {i}
  /\ \/ \E e \in {"RequestException", "OSError"} :
          /\ pc' = [pc EXCEPT ![i] = "finished"]
          /\ fut' = [fut EXCEPT ![i] = on_exception(tasks[i], e)]
          /\ UNCHANGED <<fs, wrote>>
     \/ /\ pc' = [pc EXCEPT ![i] = "finished"]
        /\ fut' = [fut EXCEPT ![i] = Outcome(tasks[i], "failed", "Not an image")]
        /\ UNCHANGED <<fs, wrote>>
     \/ /\ pc' = [pc EXCEPT ![i] = "stream"]
        /\ fs' = WriteFile(fs, tasks[i].filename, "partial")
        /\ wrote' = wrote \cup {i}
        /\ fut' = fut
  /\ UNCHANGED xvars
  /\ UNCHANGED <<prog, run, prev, results, mpc, rows, max_workers,
                 urls, tasks, failed_downloads, report, csv, cvars>>

\* the loop over response.iter_content: it ends, or the connection breaks
Stream(i) ==
  /\ prog = "download" /\ pc[i] = "stream"
  /\ \/ /\ pc' = [pc EXCEPT ![i] = "finished"]
        /\ fut' = [fut EXCEPT ![i] = on_exception(tasks[i], "RequestException")]
        /\ fs' = fs
     \/ /\ pc' = [pc EXCEPT ![i] = "finished"]
        /\ fut' = [fut EXCEPT ![i] = Outcome(tasks[i], "success", None)]
        /\ fs' = WriteFile(fs, tasks[i].filename,
                   IF \E j \in Items : j # i /\ pc[j] = "stream"
                                        /\ tasks[j].filename = tasks[i].filename
                   THEN "mixed" ELSE "full")
     \/ \* the body has no byte: the loop ends at once
        /\ pc' = [pc EXCEPT ![i] = "finished"]
        /\ fut' = [fut EXCEPT ![i] = Outcome(tasks[i], "success", None)]
        /\ fs' = WriteFile(fs, tasks[i].filename, "empty")
  /\ UNCHANGED xvars
  /\ UNCHANGED <<prog, run, prev, called, wrote, results, mpc, rows, max_workers,
                 urls, tasks, failed_downloads, report, csv, cvars>>

\* variant: a failed result goes to failed_downloads only
Collect_lossy(i) ==
  /\ prog = "download" /\ mpc = "pool"
  /\ pc[i] = "finished"
  /\ pc' = [pc EXCEPT ![i] = "collected"]
  /\ IF fut[i].status = "raised"
     THEN \* future.result() re-raises: download_all_images is left
          /\ mpc' = "aborted"
          /\ UNCHANGED <<results, failed_downloads>>
     ELSE /\ results' = IF fut[i].status = "failed" THEN results ELSE Append(results, fut[i])
          /\ failed_downloads' = IF fut[i].status = "failed"
                                 THEN Append(failed_downloads, fut[i])
                                 ELSE failed_downloads
          /\ mpc' = mpc
  /\ UNCHANGED xvars
  /\ UNCHANGED <<prog, run, prev, fs, called, wrote, rows, max_workers,
                 urls, tasks, fut, report, csv, cvars>>

\* variant: every result goes to failed_downloads
Collect_all(i) ==
  /\ prog = "download" /\ mpc = "pool"
  /\ pc[i] = "finished"
  /\ pc' = [pc EXCEPT ![i] = "collected"]
  /\ IF fut[i].status = "raised"
     THEN \* future.result() re-raises: download_all_images is left
          /\ mpc' = "aborted"
          /\ UNCHANGED <<results, failed_downloads>>
     ELSE /\ results' = Append(results, fut[i])
          /\ failed_downloads' = Append(failed_downloads, fut[i])
          /\ mpc' = mpc
  /\ UNCHANGED xvars
  /\ UNCHANGED <<prog, run, prev, fs, called, wrote, rows, max_workers,
                 urls, tasks, fut, report, csv, cvars>>

\* variant: failed_downloads keeps the latest failed result only
Collect_last(i) ==
  /\ prog = "download" /\ mpc = "pool"
  /\ pc[i] = "finished"
  /\ pc' = [pc EXCEPT ![i] = "collected"]
  /\ IF fut[i].status = "raised"
     THEN \* future.result() re-raises: download_all_images is left
          /\ mpc' = "aborted"
          /\ UNCHANGED <<results, failed_downloads>>
     ELSE /\ results' = Append(results, fut[i])
          /\ failed_downloads' = IF fut[i].status = "failed"
                                 THEN <<fut[i]>>
                                 ELSE failed_downloads
          /\ mpc' = mpc
  /\ UNCHANGED xvars
  /\ UNCHANGED <<prog, run, prev, fs, called, wrote, rows, max_workers,
                 urls, tasks, fut, report, csv, cvars>>

\* one iteration of the loop over as_completed
Collect(i) ==
  /\ prog = "download" /\ mpc = "pool"
  /\ pc[i] = "finished"
  /\ pc' = [pc EXCEPT ![i] = "collected"]
  /\ IF fut[i].status = "raised"
     THEN \* future.result() re-raises: download_all_images is left
          /\ mpc' = "aborted"
          /\ UNCHANGED <<results, failed_downloads>>
     ELSE /\ results' = Append(results, fut[i])
          /\ failed_downloads' = IF fut[i].status = "failed"
                                 THEN Append(failed_downloads, fut[i])
                                 ELSE failed_downloads
          /\ mpc' = mpc
  /\ UNCHANGED xvars
  /\ UNCHANGED <<prog, run, prev, fs, called, wrote, rows, max_workers,
                 urls, tasks, fut, report, csv, cvars>>

CountStatus(rs, st) == Cardinality({k \in DOMAIN rs : rs[k].status = st})

\* variant: whatever did not fail counts as downloaded
generate_report_lax(rs) ==
  [total |-> Len(rs), successful |-> Len(rs) - CountStatus(rs, "failed"),
   failed |-> CountStatus(rs, "failed"), skipped |-> CountStatus(rs, "skipped")]

\* generate_report
generate_report(rs) ==
  [total |-> Len(rs), successful |-> CountStatus(rs, "success"),
   failed |-> CountStatus(rs, "failed"), skipped |-> CountStatus(rs, "skipped")]

\* save_failed_downloads: pd.DataFrame(failed_downloads).to_csv(..., index=False),
\* a header line with the keys of the records and one line per record
save_failed_downloads(fd) ==
  [header |-> <<"index", "url", "filename", "status", "error">>,
   lines  |-> [k \in DOMAIN fd |->
                 <<fd[k].index, fd[k].url, fd[k].filename, fd[k].status, fd[k].error>>]]

\* the end of download_all_images: report, then the retry list
ReportAndSave ==
  /\ prog = "download" /\ mpc = "pool"
  /\ \A i \in Items : pc[i] = "collected"
  /\ report' = generate_report(results)
  /\ csv' = IF failed_downloads # <<>> THEN save_failed_downloads(failed_downloads) ELSE csv
  /\ mpc' = "done"
  /\ UNCHANGED xvars
  /\ UNCHANGED <<prog, run, prev, fs, called, wrote, results, rows, max_workers,
                 urls, tasks, pc, fut, failed_downloads, cvars>>

----------------------------------------------------------------------------
\* BulkImageConverter

\* self.supported_formats, in key order
supported_formats ==
  <<"png", "jpg", "jpeg", "jfif", "jpe", "bmp", "webp", "tiff", "tif", "gif",
    "ico", "ppm", "pgm">>

\* str.upper on an extension
upper(t) ==
  CASE t = "png" -> "PNG" [] t = "jpg" -> "JPG" [] t = "jpeg" -> "JPEG"
    [] t = "jfif" -> "JFIF" [] t = "jpe" -> "JPE" [] t = "bmp" -> "BMP"
    [] t = "webp" -> "WEBP" [] t = "tiff" -> "TIFF" [] t = "tif" -> "TIF"
    [] t = "gif" -> "GIF" [] t = "ico" -> "ICO" [] t = "ppm" -> "PPM"
    [] t = "pgm" -> "PGM" [] OTHER -> t

\* str.lower on a format name
lower(t) ==
  CASE t = "PNG" -> "png" [] t = "JPG" -> "jpg" [] t = "JPEG" -> "jpeg"
    [] t = "BMP" -> "bmp" [] OTHER -> t

get_output_extension(format_name) ==
  LET f == lower(format_name)
  IN IF f \in {"jpg", "jpeg", "jfif", "jpe"} THEN "jpg"
     ELSE IF f \in {"tif", "tiff"} THEN "tiff"
     ELSE f

\* files that may lie in input_folder
FileChoices ==
  { [stem |-> "a", ext |-> "png"], [stem |-> "a", ext |-> "bmp"],
    [stem |-> "b", ext |-> "PNG"], [stem |-> "p", ext |-> "txt"] }

\* directory listings: the files of the folder in the order the OS lists them
ListingsUpTo(m) ==
  {l \in UNION {[1..n -> FileChoices] : n \in 0..m} :
     \A j, k \in DOMAIN l : j # k => l[j] # l[k]}

Listings == ListingsUpTo(MaxFiles)

RerunListings == ListingsUpTo(MaxRerunFiles)

Formats == {"jpeg", "PNG", "svg"}

\* Path(input_folder).glob("*." + ext): case-sensitive match of the suffix
glob(listing, ext) == SelectSeq(listing, LAMBDA f : f.ext = ext)

\* the loop that fills image_files, from supported_formats[k] on
RECURSIVE collect_image_files(_, _)
collect_image_files(listing, k) ==
  IF k > Len(supported_formats) THEN <<>>
  ELSE glob(listing, supported_formats[k]) \o glob(listing, upper(supported_formats[k]))
       \o collect_image_files(listing, k + 1)

\* f"{input_path.stem}.{output_extension}"
output_filename(input_path, fmt) == <<input_path.stem, ".", get_output_extension(fmt)>>

\* what convert_image returns for each way the codec can end
convert_image(codec) == codec = "ok"

\* bulk_convert up to the for loop
ConvertStart ==
  /\ prog = "convert" /\ mpc = "start"
  /\ IF lower(output_format) \notin Range(supported_formats)
     THEN /\ mpc' = "done"
          /\ UNCHANGED image_files
     ELSE /\ image_files' = collect_image_files(folder, 1)
          /\ mpc' = IF image_files' = <<>> THEN "done" ELSE "loop"
  /\ idx' = 1
  /\ converted_count' = 0 /\ skipped_count' = 0 /\ failed_count' = 0
  /\ UNCHANGED xvars
  /\ UNCHANGED <<prog, run, prev, fs, called, wrote, results, dvars,
                 folder, output_format, overwrite>>

\* the line bulk_convert or convert_image prints for the file at position k
ConvRecord(k, status) ==
  [index |-> k - 1, url |-> image_files[k],
   filename |-> output_filename(image_files[k], output_format),
   status |-> status,
   error |-> IF status = "failed" THEN "Error converting" ELSE None]

\* one iteration of the for loop of bulk_convert
ConvertStep ==
  /\ prog = "convert" /\ mpc = "loop" /\ idx <= Len(image_files)
  /\ LET output_path == output_filename(image_files[idx], output_format)
     IN IF exists(fs, output_path) /\ ~overwrite
        THEN /\ skipped_count' = skipped_count + 1
             /\ results' = Append(results, ConvRecord(idx, "skipped"))
             /\ UNCHANGED <<fs, called, wrote, converted_count, failed_count>>
        ELSE \E codec \in {"ok", "open_error", "save_error"} :
             /\ called' = called \cup {idx}
             /\ fs' = CASE codec = "ok" -> WriteFile(fs, output_path, "full")
                        [] codec = "save_error" -> WriteFile(fs, output_path, "partial")
                        [] OTHER -> fs
             /\ wrote' = IF codec = "open_error" THEN wrote ELSE wrote \cup {idx}
             /\ IF convert_image(codec)
                THEN /\ converted_count' = converted_count + 1
                     /\ results' = Append(results, ConvRecord(idx, "success"))
                     /\ UNCHANGED failed_count
                ELSE /\ failed_count' = failed_count + 1
                     /\ results' = Append(results, ConvRecord(idx, "failed"))
                     /\ UNCHANGED converted_count
             /\ UNCHANGED skipped_count
  /\ idx' = idx + 1
  /\ UNCHANGED xvars
  /\ UNCHANGED <<prog, run, prev, mpc, dvars, folder, output_format, overwrite, image_files>>

\* the summary printed after the loop
ConvertFinish ==
  /\ prog = "convert" /\ mpc = "loop" /\ idx > Len(image_files)
  /\ report' = [total |-> Len(image_files), successful |-> converted_count,
                failed |-> failed_count, skipped |-> skipped_count]
  /\ mpc' = "done"
  /\ UNCHANGED xvars
  /\ UNCHANGED <<prog, run, prev, fs, called, wrote, results, rows, max_workers, urls,
                 tasks, pc, fut, failed_downloads, csv, cvars>>

----------------------------------------------------------------------------
\* A second run of the same script over the same input and output directory

StatusOf(rs, k) ==
  IF \E j \in DOMAIN rs : rs[j].index = k - 1
  THEN rs[CHOOSE j \in DOMAIN rs : rs[j].index = k - 1].status
  ELSE "none"

NoReport == [total |-> -1, successful |-> -1, failed |-> -1, skipped |-> -1]

Rerun ==
  /\ mpc = "done" /\ run = 1
  /\ run' = 2
  /\ prev' = [k \in 1..Len(results) |-> StatusOf(results, k)]
  /\ mpc' = "start"
  /\ results' = <<>> /\ called' = {} /\ wrote' = {}
  /\ urls' = <<>> /\ tasks' = <<>> /\ pc' = <<>> /\ fut' = <<>>
  /\ failed_downloads' = <<>> /\ report' = NoReport
  /\ image_files' = <<>> /\ idx' = 1
  /\ converted_count' = 0 /\ skipped_count' = 0 /\ failed_count' = 0
  /\ UNCHANGED xvars
  /\ UNCHANGED <<prog, fs, csv, rows, max_workers, folder, output_format, overwrite>>

----------------------------------------------------------------------------

\* main() of the downloader around download_all_images

\* what load_excel_data can meet: a readable sheet, a path that is neither
\* .xlsx nor .xls, a file pd.read_excel cannot read, a sheet without the column
Sources == {"ok", "unsupported", "unreadable", "no_column"}

\* what input() gives at the retry prompt: y, anything else, or end of input
Answers == {"y", "n", "EOFError"}

\* load_excel_data raises: its except clause logs and re-raises, the except
\* clause of main logs again and returns 1
LoadFails ==
  /\ prog = "download" /\ mpc = "start" /\ source # "ok"
  /\ error_log' = error_log \o <<"Error loading Excel file", "An error occurred">>
  /\ exit_code' = 1
  /\ mpc' = "exit"
  /\ UNCHANGED <<prog, run, prev, fs, called, wrote, results, dvars, cvars, pvars,
                 source, retry_queue, retry_results>>

\* [r for r in results if r['status'] == 'failed']
failed_of(rs) == SelectSeq(rs, LAMBDA r : r.status = "failed")

\* main after load_excel_data returned: nothing to do without urls; after
\* download_all_images the prompt, asked only when something failed
AskRetry ==
  /\ prog = "download" /\ mpc = "done" /\ exit_code = -1
  /\ IF urls = <<>> \/ failed_of(results) = <<>>
     THEN /\ exit_code' = 0 /\ mpc' = "exit"
          /\ UNCHANGED <<error_log, retry_queue>>
     ELSE \E answer \in Answers :
            CASE answer = "y" ->
                   /\ retry_queue' = failed_of(results)
                   /\ mpc' = "retry"
                   /\ UNCHANGED <<exit_code, error_log>>
              [] answer = "n" ->
                   /\ exit_code' = 0 /\ mpc' = "exit"
                   /\ UNCHANGED <<error_log, retry_queue>>
              [] answer = "EOFError" ->
                   /\ error_log' = Append(error_log, "An error occurred")
                   /\ exit_code' = 1 /\ mpc' = "exit"
                   /\ UNCHANGED retry_queue
  /\ UNCHANGED <<prog, run, prev, fs, called, wrote, results, dvars, cvars, pvars,
                 source, retry_results>>

\* one iteration of the retry loop: download_image for the next failed
\* record, from the exists check to its return; after the last one main
\* returns 0
RetryOne ==
  /\ prog = "download" /\ mpc = "retry" /\ retry_queue # <<>>
  /\ LET item == Head(retry_queue)
         i == item.index + 1
         returns(r) ==
           /\ retry_results' = Append(retry_results, r)
           /\ retry_queue' = Tail(retry_queue)
           /\ IF Len(retry_queue) = 1
              THEN exit_code' = 0 /\ mpc' = "exit"
              ELSE UNCHANGED <<exit_code, mpc>>
     IN IF exists(fs, item.filename)
        THEN /\ returns(Outcome(item, "skipped", None))
             /\ UNCHANGED <<fs, called, wrote>>
        ELSE /\ called' = called \cup {i}
             /\ \/ \E e \in {"RequestException", "OSError"} :
                     /\ returns(on_exception(item, e))
                     /\ UNCHANGED <<fs, wrote>>
                \/ /\ returns(Outcome(item, "failed", "Not an image"))
                   /\ UNCHANGED <<fs, wrote>>
                \/ /\ returns(on_exception(item, "RequestException"))
                   /\ fs' = WriteFile(fs, item.filename, "partial")
                   /\ wrote' = wrote \cup {i}
                \/ \E c \in {"full", "empty"} :
                     /\ returns(Outcome(item, "success", None))
                     /\ fs' = WriteFile(fs, item.filename, c)
                     /\ wrote' = wrote \cup {i}
  /\ UNCHANGED <<prog, run, prev, results, dvars, cvars, pvars, source, error_log>>

----------------------------------------------------------------------------
\* The preview of the PDF converter window (pdf_2_docx/main.py); tkinter runs
\* one handler at a time

\* range(min(10, self.total_pages)): the preview stops at ten pages
PreviewLimit == 10

min(a, b) == IF a < b THEN a ELSE b

\* the list after n iterations of the rendering loop
rendered(n) == [k \in 1..n |-> k - 1]

\* load_pdf_preview on a file of n pages: fitz.open may raise, and so may
\* the rendering of any page; the except clause shows a message box and
\* leaves what the try block had done
load_pdf_preview(n) ==
  /\ current_page' = 0
  /\ \/ \* fitz.open raises
        /\ preview_images' = <<>>
        /\ total_pages' = total_pages
     \/ \* the loop ends, or page number done raises
        /\ total_pages' = n
        /\ \E done \in 0..min(PreviewLimit, n) : preview_images' = rendered(done)

\* the file dialog returns a path, or "" when it is cancelled
select_pdf ==
  /\ prog = "pdf"
  /\ \/ /\ event' = "cancel"
        /\ UNCHANGED <<preview_images, current_page, total_pages>>
     \/ /\ event' = "load_pdf_preview"
        /\ \E n \in 0..MaxPages : load_pdf_preview(n)
  /\ UNCHANGED <<prog, run, prev, fs, called, wrote, results, mpc, dvars, cvars, mvars>>

\* variant: the guard lets the page run one past the end
next_page_past_end ==
  /\ prog = "pdf"
  /\ event' = "next_page"
  /\ current_page' = IF preview_images # <<>> /\ current_page < Len(preview_images)
                      THEN current_page + 1 ELSE current_page
  /\ UNCHANGED <<preview_images, total_pages>>
  /\ UNCHANGED <<prog, run, prev, fs, called, wrote, results, mpc, dvars, cvars, mvars>>

\* next_page
next_page ==
  /\ prog = "pdf"
  /\ event' = "next_page"
  /\ current_page' = IF preview_images # <<>> /\ current_page < Len(preview_images) - 1
                      THEN current_page + 1 ELSE current_page
  /\ UNCHANGED <<preview_images, total_pages>>
  /\ UNCHANGED <<prog, run, prev, fs, called, wrote, results, mpc, dvars, cvars, mvars>>

\* prev_page
prev_page ==
  /\ prog = "pdf"
  /\ event' = "prev_page"
  /\ current_page' = IF preview_images # <<>> /\ current_page > 0
                      THEN current_page - 1 ELSE current_page
  /\ UNCHANGED <<preview_images, total_pages>>
  /\ UNCHANGED <<prog, run, prev, fs, called, wrote, results, mpc, dvars, cvars, mvars>>

----------------------------------------------------------------------------
InitWith(sheets, listings) ==
  /\ prog \in {"download", "convert"}
  /\ run = 1 /\ prev = <<>>
  /\ fs \in InitialDirs
  /\ called = {} /\ wrote = {} /\ results = <<>>
  /\ mpc = "start"
  /\ IF prog = "download"
     THEN /\ rows \in sheets
          /\ max_workers \in 1..MaxWorkers
          /\ folder = <<>> /\ output_format = "jpeg" /\ overwrite = FALSE
     ELSE /\ rows = <<>> /\ max_workers = 1
          /\ folder \in listings
          /\ output_format \in Formats
          /\ overwrite \in BOOLEAN
  /\ urls = <<>> /\ tasks = <<>> /\ pc = <<>> /\ fut = <<>>
  /\ failed_downloads = <<>> /\ report = NoReport /\ csv = NoFile
  /\ image_files = <<>> /\ idx = 1
  /\ converted_count = 0 /\ skipped_count = 0 /\ failed_count = 0
  /\ source = "ok" /\ exit_code = -1 /\ error_log = <<>>
  /\ retry_queue = <<>> /\ retry_results = <<>>
  /\ preview_images = <<>> /\ current_page = 0 /\ total_pages = 0 /\ event = "none"

Init == InitWith(Sheets, Listings)

Next ==
  \/ LoadAndSubmit
  \/ \E i \in Items : StartDownload(i)
  \/ \E i \in Items : Fetch(i)
  \/ \E i \in Items : Stream(i)
  \/ \E i \in Items : Collect(i)
  \/ ReportAndSave
  \/ ConvertStart
  \/ ConvertStep
  \/ ConvertFinish

\* one run of one script
Spec == Init /\ [][Next]_vars

\* two runs over the same input and output directory
InitRerun == InitWith(RerunSheets, RerunListings)

NextRerun == Next \/ Rerun

SpecRerun == InitRerun /\ [][NextRerun]_vars

\* the downloader script from its command line to its exit code
InitMain ==
  /\ prog = "download"
  /\ run = 1 /\ prev = <<>>
  /\ fs \in InitialDirs
  /\ called = {} /\ wrote = {} /\ results = <<>>
  /\ mpc = "start"
  /\ source \in Sources
  /\ rows \in Sheets
  /\ max_workers \in 1..MaxWorkers
  /\ folder = <<>> /\ output_format = "jpeg" /\ overwrite = FALSE
  /\ urls = <<>> /\ tasks = <<>> /\ pc = <<>> /\ fut = <<>>
  /\ failed_downloads = <<>> /\ report = NoReport /\ csv = NoFile
  /\ image_files = <<>> /\ idx = 1
  /\ converted_count = 0 /\ skipped_count = 0 /\ failed_count = 0
  /\ exit_code = -1 /\ error_log = <<>>
  /\ retry_queue = <<>> /\ retry_results = <<>>
  /\ preview_images = <<>> /\ current_page = 0 /\ total_pages = 0 /\ event = "none"

NextMain ==
  \/ LoadFails
  \/ LoadAndSubmit
  \/ \E i \in Items : StartDownload(i)
  \/ \E i \in Items : Fetch(i)
  \/ \E i \in Items : Stream(i)
  \/ \E i \in Items : Collect(i)
  \/ ReportAndSave
  \/ AskRetry
  \/ RetryOne

SpecMain == InitMain /\ [][NextMain]_vars

\* the preview window of the PDF converter
InitPdf ==
  /\ prog = "pdf"
  /\ run = 1 /\ prev = <<>>
  /\ fs = EmptyDir
  /\ called = {} /\ wrote = {} /\ results = <<>>
  /\ mpc = "start"
  /\ rows = <<>> /\ max_workers = 1
  /\ folder = <<>> /\ output_format = "jpeg" /\ overwrite = FALSE
  /\ urls = <<>> /\ tasks = <<>> /\ pc = <<>> /\ fut = <<>>
  /\ failed_downloads = <<>> /\ report = NoReport /\ csv = NoFile
  /\ image_files = <<>> /\ idx = 1
  /\ converted_count = 0 /\ skipped_count = 0 /\ failed_count = 0
  /\ source = "ok" /\ exit_code = -1 /\ error_log = <<>>
  /\ retry_queue = <<>> /\ retry_results = <<>>
  /\ preview_images = <<>> /\ current_page = 0 /\ total_pages = 0 /\ event = "none"

NextPdf ==
  \/ select_pdf
  \/ next_page
  \/ prev_page

SpecPdf == InitPdf /\ [][NextPdf]_vars

----------------------------------------------------------------------------
\* Properties

Statuses == {"success", "failed", "skipped"}

RecordsWithIndex(rs, n) == {j \in DOMAIN rs : rs[j].index = n}

\* C1: when download_all_images is over, the results list holds exactly one
\* record per task: as many records as urls, and each task index 0..N-1 once;
\* at no moment does an index occur twice in it.
C1_OneRecordPerItem ==
  prog = "download" =>
    /\ \A j, k \in DOMAIN results : results[j].index = results[k].index => j = k
    /\ mpc \in {"done", "aborted"} =>
         /\ Len(results) = Len(urls)
         /\ \A k \in DOMAIN urls : Cardinality(RecordsWithIndex(results, k - 1)) = 1

\* a finished run of two downloads, one of them failed, collected out of order
C1_Witness ==
  /\ prog = "download" /\ mpc = "done" /\ Len(results) = 2
  /\ results[1].index = 1
  /\ \E j \in DOMAIN results : results[j].status = "failed"

\* C2: the download_image calls that have started and not returned never
\* outnumber max_workers, although all tasks are submitted up front.
C2_ConcurrencyBound ==
  prog = "download" => Cardinality({i \in DOMAIN pc : pc[i] \in {"get", "stream"}}) <= max_workers

\* more tasks than workers: every worker busy while a task waits in the queue
C2_Witness ==
  /\ prog = "download" /\ Len(tasks) > max_workers
  /\ Cardinality({i \in DOMAIN pc : pc[i] \in {"get", "stream"}}) = max_workers
  /\ \E i \in DOMAIN pc : pc[i] = "queued"

\* C3: an invocation that finds its target in the output directory (and, in
\* bulk_convert, overwrite is off) ends as skipped, the external operation is
\* not invoked for the item and the directory is left as it was.
C3_SkipExisting ==
  [][ /\ prog = "download" =>
           \A i \in DOMAIN pc :
              (i \in DOMAIN pc' /\ pc[i] = "queued" /\ pc'[i] # "queued"
                 /\ tasks[i].filename \in DOMAIN fs)
              => /\ pc'[i] = "finished" /\ fut'[i].status = "skipped"
                 /\ called' = called /\ wrote' = wrote /\ fs' = fs
      /\ (prog = "convert" /\ mpc = "loop" /\ idx' = idx + 1
            /\ output_filename(image_files[idx], output_format) \in DOMAIN fs
            /\ ~overwrite)
         => /\ results'[Len(results')].status = "skipped"
            /\ results'[Len(results')].index = idx - 1
            /\ called' = called /\ wrote' = wrote /\ fs' = fs
    ]_vars

\* a download skipped because a.jpg was there before the run, and still is
C3_Witness ==
  /\ prog = "download"
  /\ \E j \in DOMAIN results :
        /\ results[j].status = "skipped"
        /\ results[j].filename \in DOMAIN fs
        /\ fs[results[j].filename] = "old"
        /\ (results[j].index + 1) \notin called

WellFormed(r) ==
  /\ r.status \in Statuses
  /\ r.status = "failed" => r.error \notin {None, ""}
  /\ r.status # "failed" => r.error = None

\* C4: an error of the external operation stays inside the Executor: every
\* finished call carries a record with status success, failed or skipped, a
\* failed one with an error text; the run is never aborted, and at its end
\* every item of the run has its well-formed record.
C4_ErrorIsolation ==
  /\ mpc # "aborted"
  /\ \A i \in DOMAIN fut : fut[i] # NoResult => WellFormed(fut[i])
  /\ \A j \in DOMAIN results : WellFormed(results[j])
  /\ (prog = "download" /\ mpc = "done") =>
        \A k \in DOMAIN urls : RecordsWithIndex(results, k - 1) # {}
  /\ (prog = "convert" /\ mpc = "done") =>
        \A k \in DOMAIN image_files : RecordsWithIndex(results, k - 1) # {}

\* the request of one item raised, and a sibling submitted after it succeeded
C4_Witness ==
  /\ prog = "download" /\ mpc = "done"
  /\ \E j, k \in DOMAIN results :
        /\ results[j].status = "failed" /\ results[j].error = "RequestException"
        /\ results[k].status = "success"
        /\ results[k].index > results[j].index

CountPrev(st) == Cardinality({k \in DOMAIN prev : prev[k] = st})

\* C5 as stated: after the second run with overwrite off, its skipped count
\* equals the success count of the first run and it wrote nothing.
C5_SkippedEqualsPreviousSuccess ==
  (run = 2 /\ mpc = "done" /\ ~overwrite) =>
     /\ CountStatus(results, "skipped") = CountPrev("success")
     /\ wrote = {}

\* C5 (amended): after the second run with overwrite off, every item that
\* ended as success or skipped in the first run is skipped, without the
\* external operation and without a write for it; so the skipped count of the
\* second run is at least the success count plus the skipped count of the
\* first run.
C5_RerunSkipsWhatIsThere ==
  (run = 2 /\ mpc = "done" /\ ~overwrite) =>
     /\ Len(results) = Len(prev)
     /\ \A k \in DOMAIN prev :
           prev[k] \in {"success", "skipped"}
           => /\ StatusOf(results, k) = "skipped"
              /\ k \notin called /\ k \notin wrote
     /\ CountStatus(results, "skipped") >= CountPrev("success") + CountPrev("skipped")

\* second run over two items: the one that succeeded before is skipped, the
\* one that failed before is converted again and written
C5_Witness ==
  /\ run = 2 /\ mpc = "done" /\ ~overwrite
  /\ \E k \in DOMAIN prev : prev[k] = "success" /\ StatusOf(results, k) = "skipped"
  /\ \E k \in DOMAIN prev : prev[k] = "failed" /\ k \in wrote

HasDuplicateTargets ==
  \E i, j \in DOMAIN tasks : i # j /\ tasks[i].filename = tasks[j].filename

\* C6: when two tasks of a run have the same target filename, nothing is
\* dispatched: no download_image call starts, no fetch, no write.
C6_DuplicateTargetsRejected ==
  (prog = "download" /\ HasDuplicateTargets) =>
     /\ \A i \in DOMAIN pc : pc[i] = "queued"
     /\ called = {} /\ wrote = {}
     /\ mpc # "done"

\* C7: no two download_image calls that are between the exists check and the
\* end of the write have the same target filename.
C7_NoPathContention ==
  prog = "download" =>
     \A i, j \in DOMAIN pc :
        (i # j /\ pc[i] \in {"get", "stream"} /\ pc[j] \in {"get", "stream"})
        => tasks[i].filename # tasks[j].filename

\* C8: a download_image call that returned failed or skipped has not opened
\* its target for writing.
C8_NoWriteUnlessSuccess ==
  prog = "download" =>
     \A i \in DOMAIN fut : fut[i].status \in {"failed", "skipped"} => i \notin wrote

\* the line to_csv writes for a record
CsvLine(r) == <<r.index, r.url, r.filename, r.status, r.error>>

\* C9: after a run with at least one failed record, failed_downloads.csv holds
\* one line per failed record of the run (index, url, filename, status,
\* error), each once, and no line for a success or skipped record.
C9_RetryListIsTheFailures ==
  (prog = "download" /\ mpc = "done" /\ CountStatus(results, "failed") > 0) =>
     /\ csv.header = <<"index", "url", "filename", "status", "error">>
     /\ Len(csv.lines) = CountStatus(results, "failed")
     /\ \A j \in DOMAIN results :
           (results[j].status = "failed")
           <=> (\E k \in DOMAIN csv.lines : csv.lines[k] = CsvLine(results[j]))
     /\ \A j, k \in DOMAIN csv.lines : csv.lines[j][1] = csv.lines[k][1] => j = k

\* a finished run with a success and a failed record: one csv line, the failed one
C9_Witness ==
  /\ prog = "download" /\ mpc = "done"
  /\ Len(results) = 2 /\ Len(csv.lines) = 1
  /\ \E j \in DOMAIN results : results[j].status = "success"
  /\ csv.lines[1][4] = "failed"

ItemsEnding(st) == Cardinality({i \in DOMAIN fut : fut[i].status = st})

----------------------------------------------------------------------------
\* the records rs taken in the order p
Reordered(rs, p) == [k \in DOMAIN rs |-> rs[p[k]]]

FailedLines(rs) == {CsvLine(rs[k]) : k \in {j \in DOMAIN rs : rs[j].status = "failed"}}

\* C11: the summary and the retry list of a finished download run do not
\* depend on the order in which the results arrived: whatever order the
\* collected records are taken in (the enumeration order of the futures
\* included), the four counts are those of the report and the failed
\* records are the lines of failed_downloads.csv (no file when none failed).
C11_OrderIndependent ==
  (prog = "download" /\ mpc = "done" /\ urls # <<>>) =>
     /\ report = generate_report(fut)
     /\ Range(csv.lines) = FailedLines(fut)
     /\ \A p \in Permutations(DOMAIN results) :
           /\ generate_report(Reordered(results, p)) = report
           /\ FailedLines(Reordered(results, p)) = Range(csv.lines)
     /\ Len(csv.lines) = Cardinality(FailedLines(fut))

\* a finished run whose two failed results arrived against the enumeration order
C11_Witness ==
  /\ prog = "download" /\ mpc = "done"
  /\ Len(results) = 2 /\ results[1].index > results[2].index
  /\ results[1].status = "failed" /\ results[2].status = "failed"
  /\ Len(csv.lines) = 2

----------------------------------------------------------------------------
\* the input yields no item: every url cell is empty, or the format is
\* supported and no file of the folder has a supported extension
ZeroItems ==
  \/ prog = "download" /\ \A k \in DOMAIN rows : rows[k].url = NaN
  \/ /\ prog = "convert" /\ lower(output_format) \in Range(supported_formats)
     /\ \A k \in DOMAIN folder :
           \A j \in DOMAIN supported_formats :
              folder[k].ext \notin {supported_formats[j], upper(supported_formats[j])}

AllZero == [total |-> 0, successful |-> 0, failed |-> 0, skipped |-> 0]

\* C12: a run over an input that yields no item does not abort and ends
\* with a summary whose total, successful, failed and skipped are all 0.
C12_ZeroItemsAllZeroSummary ==
  /\ ZeroItems => mpc # "aborted"
  /\ (ZeroItems /\ mpc = "done") => report = AllZero

----------------------------------------------------------------------------
\* C13: main returns 0 exactly when no record of the run is failed: a
\* completed run with at least one failed record exits non-zero, a run
\* without a failed record exits 0.
C13_ExitCodeTellsFailures ==
  (prog = "download" /\ mpc = "exit" /\ source = "ok") =>
     (exit_code = 0 <=> CountStatus(results, "failed") = 0)

----------------------------------------------------------------------------
NoDispatch ==
  /\ called = {} /\ wrote = {} /\ tasks = <<>> /\ pc = <<>>
  /\ results = <<>> /\ retry_results = <<>>

NoArtifacts == report = NoReport /\ csv = NoFile /\ failed_downloads = <<>>

\* C16: when the Excel file cannot be read or lacks the url column, the
\* run ends before anything is dispatched: no download_image call, no
\* summary, no retry list, and the error is reported once, with a non-zero
\* exit code.
C16_BadSourceAbortsOnce ==
  (prog = "download" /\ source # "ok") =>
     /\ NoDispatch /\ NoArtifacts
     /\ mpc = "exit" => (exit_code # 0 /\ Len(error_log) = 1)

----------------------------------------------------------------------------
Retries(n) == Cardinality({k \in DOMAIN retry_results : retry_results[k].index = n})

RetryStarted == mpc = "retry" \/ retry_results # <<>>

\* the retry loop runs after the pool, the report and the retry list
RetryAfterReport ==
  RetryStarted =>
     /\ \A i \in Items : pc[i] = "collected"
     /\ report # NoReport /\ csv # NoFile

\* the retry loop takes the failed records, each once, and no other
RetryOncePerFailure ==
  /\ \A i \in Items :
        Retries(tasks[i].index) <= (IF fut[i].status = "failed" THEN 1 ELSE 0)
  /\ (mpc = "exit" /\ RetryStarted) =>
        \A i \in Items : fut[i].status = "failed" => Retries(tasks[i].index) = 1

\* C17: the retry loop of main starts only after the pool is done and the
\* report and failed_downloads.csv are there; it calls download_image once
\* for each record that failed, for no other record, and every one of these
\* calls attempts the fetch again: none returns skipped.
C17_RetryReattemptsEachFailure ==
  prog = "download" =>
     /\ RetryAfterReport
     /\ RetryOncePerFailure
     /\ \A k \in DOMAIN retry_results : retry_results[k].status # "skipped"

----------------------------------------------------------------------------
\* the enumeration succeeded: the sheet was read, the output format is known
Enumerated ==
  \/ prog = "download" /\ source = "ok"
  \/ prog = "convert" /\ lower(output_format) \in Range(supported_formats)

AllCollected ==
  IF prog = "download" THEN \A i \in Items : pc[i] = "collected"
  ELSE idx > Len(image_files)

\* C14: every run whose enumeration succeeded finishes with its summary
\* report, however many items fail: the run is never left early, a run that
\* has finished has emitted the report, and the report is there only once
\* the outcome of every dispatched item has been collected.
C14_RunEndsWithReport ==
  Enumerated =>
     /\ mpc # "aborted"
     /\ mpc = "done" => report # NoReport
     /\ report # NoReport => AllCollected

----------------------------------------------------------------------------
\* the file at path is there and holds at least one byte
NonEmptyFile(dir, path) == path \in DOMAIN dir /\ dir[path] # "empty"

\* C15: a record gets status success only when the target file is there
\* once the operation has returned, with at least one byte for a download;
\* an operation that returns without error over a missing or empty target
\* gives a failed record.
C15_SuccessIsVerified ==
  [][/\ prog = "download" =>
          \A i \in DOMAIN fut' :
             (fut'[i].status = "success" /\ (i \notin DOMAIN fut \/ fut[i].status # "success"))
                => NonEmptyFile(fs', tasks'[i].filename)
     /\ prog = "convert" =>
          ((Len(results') > Len(results) /\ results'[Len(results')].status = "success")
             => results'[Len(results')].filename \in DOMAIN fs')]_vars

----------------------------------------------------------------------------
\* C18: in the preview of the PDF converter, whatever events were handled,
\* a non-empty preview has 0 <= current_page <= len(preview_images) - 1;
\* next_page at the last preview page and prev_page at page 0 leave
\* current_page as it is, and loading a PDF sets current_page to 0.
C18_PreviewPageInBounds ==
  /\ [](prog = "pdf" =>
          /\ Len(preview_images) <= PreviewLimit
          /\ preview_images # <<>> =>
                (0 <= current_page /\ current_page <= Len(preview_images) - 1))
  /\ [][prog = "pdf" =>
          /\ (event' = "next_page" /\ preview_images # <<>>
                /\ current_page = Len(preview_images) - 1) => current_page' = current_page
          /\ (event' = "prev_page" /\ current_page = 0) => current_page' = current_page
          /\ event' = "load_pdf_preview" => current_page' = 0]_vars

\* next_page was handled on the last of the ten preview pages of a longer file
C18_Witness ==
  /\ prog = "pdf" /\ event = "next_page"
  /\ total_pages > PreviewLimit
  /\ Len(preview_images) = PreviewLimit
  /\ current_page = Len(preview_images) - 1

====
